---------------------------- MODULE Spec2Model ----------------------------
(***************************************************************************)
(* Model of src/src/app.py: a Streamlit script that is re-run from top to  *)
(* bottom on every user event.  The state that survives between runs is    *)
(* st.session_state (chat_history, db, llm).  Two events drive a run: the  *)
(* "Connect" button and the chat input ("Submit").  Texts are sequences   *)
(* of one-character strings so that substring tests, upper(), strip() and  *)
(* indexing are computed the way Python computes them.                     *)
(***************************************************************************)
EXTENDS Integers, Sequences, FiniteSets, TLC

\* ------------------------------------------------------------------ bounds
\* Cap on the length of chat_history (Submit is disabled beyond it).
MaxHistory == 4

\* ------------------------------------------------------- Python values
None == [type |-> "NoneType", val |-> <<>>]

Str(t) == [type |-> "str", val |-> t]

\* Outcome marker of an external call that raised an exception.
Raised == [type |-> "Exception", val |-> <<>>]

\* Python truthiness of None / str, as used by `if response` (line 144, 147).
Truthy(v) == v.type = "str" /\ Len(v.val) > 0

\* ------------------------------------------------------- text literals
MissingKeyMsg == <<"U", "n", "a", "b", "l", "e", " ", "t", "o", " ", "p", "r", "o", "c", "e", "s", "s", " ", "r", "e", "q", "u", "e", "s", "t", " ", "d", "u", "e", " ", "t", "o", " ", "m", "i", "s", "s", "i", "n", "g", " ", "o", "r", " ", "i", "n", "v", "a", "l", "i", "d", " ", "A", "P", "I", " ", "k", "e", "y", ".">>

Greeting == <<"H", "e", "l", "l", "o", "!", " ", "I", "'", "m", " ", "D", "u", "s", "t", "u", "r", "I", "A", ".", " ", "A", "s", "k", " ", "m", "e", " ", "a", "n", "y", "t", "h", "i", "n", "g", " ", "a", "b", "o", "u", "t", " ", "t", "h", "e", " ", "M", "o", "r", "o", "c", "c", "a", "n", " ", "C", "o", "n", "s", "t", "i", "t", "u", "t", "i", "o", "n", "a", "l", " ", "C", "o", "u", "r", "t", ".", ".">>

NoResponse == <<"N", "o", " ", "r", "e", "s", "p", "o", "n", "s", "e">>

CountPrefix == <<"T", "h", "e", "r", "e", " ", "w", "e", "r", "e", " ">>

CountSuffix == <<" ", "d", "e", "c", "i", "s", "i", "o", "n", "s", ".">>

COUNT == <<"C", "O", "U", "N", "T">>

\* The character U+0060 (grave accent); the TLA+ lexer cannot hold it in a
\* string literal, so it is named.
Backquote == "U+0060"

Fence == <<Backquote, Backquote, Backquote>>

\* ------------------------------------------------------- str operations
LowerCase == <<"a","b","c","d","e","f","g","h","i","j","k","l","m","n","o","p","q","r","s","t","u","v","w","x","y","z">>

UpperCase == <<"A","B","C","D","E","F","G","H","I","J","K","L","M","N","O","P","Q","R","S","T","U","V","W","X","Y","Z">>

\* str.upper() on one character.
UpperChar(c) ==
    IF \E i \in 1..Len(LowerCase) : LowerCase[i] = c
    THEN UpperCase[CHOOSE i \in 1..Len(LowerCase) : LowerCase[i] = c]
    ELSE c

\* str.upper()
upper(t) == [i \in 1..Len(t) |-> UpperChar(t[i])]

\* Python `sub in t` on strings.
Contains(t, sub) ==
    \E i \in 0..(Len(t) - Len(sub)) :
        \A j \in 1..Len(sub) : t[i + j] = sub[j]

Whitespace == {" ", "\t", "\n"}

\* str.strip(): drop leading and trailing whitespace.
strip(t) ==
    LET keep == {i \in 1..Len(t) : t[i] \notin Whitespace} IN
    IF keep = {} THEN <<>>
    ELSE LET lo == CHOOSE i \in keep : \A j \in keep : i <= j
             hi == CHOOSE i \in keep : \A j \in keep : i >= j
         IN  SubSeq(t, lo, hi)

Digits == <<"0","1","2","3","4","5","6","7","8","9">>

\* str(n) for a natural number n.
RECURSIVE IntStr(_)
IntStr(n) == IF n < 10 THEN <<Digits[n + 1]>>
             ELSE IntStr(n \div 10) \o <<Digits[(n % 10) + 1]>>

\* ", ".join(parts)
RECURSIVE Join(_)
Join(parts) ==
    IF Len(parts) = 0 THEN <<>>
    ELSE IF Len(parts) = 1 THEN parts[1]
    ELSE parts[1] \o <<",", " ">> \o Join(Tail(parts))

\* str(tuple of ints): "(5,)" for one column, "(2, 7)" for several.
TupleStr(row) ==
    IF Len(row) = 1 THEN <<"(">> \o IntStr(row[1]) \o <<",", ")">>
    ELSE <<"(">> \o Join([i \in 1..Len(row) |-> IntStr(row[i])]) \o <<")">>

\* str(list of tuples): "[(5,), (3,)]".
ListStr(rs) == <<"[">> \o Join([i \in 1..Len(rs) |-> TupleStr(rs[i])]) \o <<"]">>

\* ------------------------------------------------------- messages
AIMessage(content) == [role |-> "AI", content |-> content]

HumanMessage(content) == [role |-> "Human", content |-> content]

\* ------------------------------------------------------- session state
\* st.session_state: a mapping whose key set grows ("db" in st.session_state
\* is a test on its domain).
Put(ss, k, v) == [x \in (DOMAIN ss) \cup {k} |-> IF x = k THEN v ELSE ss[x]]

EmptySession == [x \in {} |-> None]

\* ------------------------------------------------------- inputs
\* Default values of the sidebar widgets (lines 98-103).
DefaultHost == "bxz3tw0pspj5uoxaxc0j-mysql.services.clever-cloud.com"

DefaultPort == "3306"

DefaultUser == "upu2m1qun4syetdj"

DefaultPassword == "8P9gZbUJaRy0RijKJ4bQ"

DefaultDatabase == "bxz3tw0pspj5uoxaxc0j"

\* Hosts the user may type into the Host field.
Hosts == {DefaultHost, "localhost"}

\* API Key field: empty (the default, line 103) or some key.
APIKeys == {"", "key"}

Providers == {"Groq", "OpenAI"}

\* Texts the user may submit: empty, whitespace-only, a question, and a
\* question with surrounding blanks.
UserTexts == {<<>>, <<" ">>, <<" ", "\n">>, <<"q", "?">>, <<" ", "q", " ">>}

\* Values st.chat_input can yield in a run: None or a text.
UserQueries == {None} \cup {Str(t) : t \in UserTexts}

\* Texts an LLM completion may contain.
SqlCountUpper == <<"S", "E", "L", "E", "C", "T", " ", "C", "O", "U", "N", "T", "(", "i", "d", ")", " ", "F", "R", "O", "M", " ", "t">>

SqlCountLower == <<"s", "e", "l", "e", "c", "t", " ", "c", "o", "u", "n", "t", "(", "i", "d", ")", " ", "f", "r", "o", "m", " ", "t">>

SqlPlain == <<"S", "E", "L", "E", "C", "T", " ", "y", "e", "a", "r", " ", "F", "R", "O", "M", " ", "t">>

SqlFenced == <<Backquote, Backquote, Backquote, "S", "E", "L", "E", "C", "T", " ", "y", "e", "a", "r", " ", "F", "R", "O", "M", " ", "t", Backquote, Backquote, Backquote>>

LLMTexts == {SqlCountUpper, SqlCountLower, SqlPlain, SqlFenced}

\* Row sets the database may return for a query.
RowSets == {<<>>, <<<<5>>>>, <<<<12>>>>, <<<<2, 7>>, <<3, 4>>>>}

SchemaText == <<"t", "(", "y", "e", "a", "r", ")">>

\* Outcome of an external call: a value, or an exception.
Ok(v) == [raised |-> FALSE, val |-> v]

Err == [raised |-> TRUE, val |-> <<>>]

\* What the external services do during one pipeline run: the schema fetch
\* fails; or it succeeds and the completion fails; or both succeed and the
\* execution fails or returns rows.  A call that is not reached has no outcome
\* of its own (Err stands in its place).
Outcomes ==
    {[schema |-> Err, llm |-> Err, run |-> Err],
     [schema |-> Ok(SchemaText), llm |-> Err, run |-> Err]}
    \cup {[schema |-> Ok(SchemaText), llm |-> Ok(t), run |-> r] :
              t \in LLMTexts, r \in {Err} \cup {Ok(rs) : rs \in RowSets}}

\* A run in which the pipeline is not entered.
NoOutcome == [schema |-> Err, llm |-> Err, run |-> Err]

\* ------------------------------------------------------- program
VARIABLES
    session_state,  \* st.session_state: chat_history, db, llm
    widgets,        \* current values of the sidebar widgets
    event,          \* which trigger started the last script run
    user_query,     \* value of st.chat_input in the last run
    ui,             \* what the last run displayed, in order
    calls,          \* external calls made by the last run, in order
    query,          \* SQL text produced in the last run (None if none)
    rows,           \* rows the database produced in the last run
    result,         \* value db.run returned in the last run (None if none)
    response,       \* value get_response returned in the last run
    completed       \* the last run reached the end of the script

vars == <<session_state, widgets, event, user_query, ui, calls, query, rows, result, response, completed>>

chat_history == session_state["chat_history"]

\* Lines 11-13: build the URI and open the database.
init_database(user, password, host, port, database) ==
    [class |-> "SQLDatabase",
     db_uri |-> <<"mysql+mysqlconnector://", user, ":", password, "@", host, ":", port, "/", database>>]

\* Lines 122-125: the client object for the selected provider.
make_llm(llm_provider, api_key) ==
    IF llm_provider = "Groq"
    THEN [class |-> "ChatGroq", model |-> "llama-3.1-70b-versatile", temperature |-> 2, api_key |-> api_key]
    ELSE [class |-> "ChatOpenAI", model |-> "gpt-4o", temperature |-> 0, api_key |-> api_key]

\* Lines 15-52: the chain object (schema step, prompt, llm, parser).
get_sql_chain(d, l) ==
    [class |-> "RunnableSequence",
     steps |-> <<"assign(schema=get_schema)", "prompt", "llm", "StrOutputParser">>,
     db |-> d, llm |-> l]

\* `not sql_chain` (line 56): a RunnableSequence defines neither __bool__
\* nor __len__, so the object is always true.
ChainTruthy(chain) == chain.class = "RunnableSequence"

\* StrOutputParser: the text content of the model's message.
StrOutputParser(message) == message.content

\* Variant of invoke that calls the model before it has fetched the schema.
invoke_llm_first(chain, input, schemaOut, llmOut) ==
    IF llmOut.raised
    THEN [raised |-> TRUE, calls |-> <<"llm">>, val |-> None]
    ELSE IF schemaOut.raised
    THEN [raised |-> TRUE, calls |-> <<"llm", "db.get_table_info">>, val |-> None]
    ELSE [raised |-> FALSE, calls |-> <<"llm", "db.get_table_info">>,
          val |-> Str(StrOutputParser(AIMessage(llmOut.val)))]

\* sql_chain.invoke (lines 60-63, running lines 44-52): fetch the schema,
\* fill the prompt, call the model, parse the message to text.
invoke(chain, input, schemaOut, llmOut) ==
    IF schemaOut.raised
    THEN [raised |-> TRUE, calls |-> <<"db.get_table_info">>, val |-> None]
    ELSE IF llmOut.raised
    THEN [raised |-> TRUE, calls |-> <<"db.get_table_info", "llm">>, val |-> None]
    ELSE [raised |-> FALSE, calls |-> <<"db.get_table_info", "llm">>,
          val |-> Str(StrOutputParser(AIMessage(llmOut.val)))]

\* SQLDatabase.run (line 68): the rows rendered as text, "" when there are
\* none.
run(rs) == IF Len(rs) = 0 THEN Str(<<>>) ELSE Str(ListStr(rs))

\* s[0] on a str: its first character, IndexError on "".
Index0(s) == IF Len(s.val) = 0 THEN Raised ELSE Str(<<s.val[1]>>)

\* Lines 72-76: the value returned after a successful execution; Raised when
\* result[0][0] raises (caught by line 77).
format_result(q, res) ==
    IF Contains(upper(q.val), COUNT)
    THEN LET first == Index0(res) IN
         IF first = Raised THEN Raised
         ELSE Str(CountPrefix \o Index0(first).val \o CountSuffix)
    ELSE res

\* Lines 54-79.
get_response(uq, d, history, l, schemaOut, llmOut, runOut) ==
    LET sql_chain == get_sql_chain(d, l) IN
    IF ~ChainTruthy(sql_chain)
    THEN [raised |-> FALSE, response |-> Str(MissingKeyMsg), calls |-> <<>>, ui |-> <<>>,
          query |-> None, rows |-> <<>>, result |-> None]
    ELSE
    LET inv == invoke(sql_chain, [question |-> uq, chat_history |-> history], schemaOut, llmOut) IN
    IF inv.raised
    THEN [raised |-> TRUE, response |-> None, calls |-> inv.calls, ui |-> <<>>,
          query |-> None, rows |-> <<>>, result |-> None]
    ELSE
    LET q == inv.val
        ui1 == <<"write: Generated SQL Query">>
        calls1 == inv.calls \o <<"db.run">>
    IN
    IF runOut.raised
    THEN [raised |-> FALSE, response |-> None, calls |-> calls1,
          ui |-> ui1 \o <<"error: SQL Execution Error">>,
          query |-> q, rows |-> <<>>, result |-> Raised]
    ELSE
    LET res == run(runOut.val)
        ui2 == ui1 \o <<"write: SQL Query Result">>
        ret == format_result(q, res)
    IN
    IF ret = Raised
    THEN [raised |-> FALSE, response |-> None, calls |-> calls1,
          ui |-> ui2 \o <<"error: SQL Execution Error">>,
          query |-> q, rows |-> runOut.val, result |-> res]
    ELSE [raised |-> FALSE, response |-> ret, calls |-> calls1, ui |-> ui2,
          query |-> q, rows |-> runOut.val, result |-> res]

\* Lines 83-86.
init_chat_history(ss) ==
    IF "chat_history" \notin DOMAIN ss
    THEN Put(ss, "chat_history", <<AIMessage(Greeting)>>)
    ELSE ss

\* Line 132.
gate_closed(ss) == "db" \notin DOMAIN ss \/ "llm" \notin DOMAIN ss

\* Variant of has_input that forgets strip().
has_input_no_strip(uq) == uq # None /\ uq.val # <<>>

\* Line 136.
has_input(uq) == uq # None /\ strip(uq.val) # <<>>

\* Variant of connect_handler that resets db and llm to None when the
\* database cannot be opened.
connect_handler_reset(ss, host, api_key, llm_provider, dbOk, llmOk) ==
    IF ~dbOk
    THEN [ss |-> Put(Put(ss, "db", None), "llm", None),
          calls |-> <<"SQLDatabase.from_uri">>,
          ui |-> <<"error: Failed to connect">>]
    ELSE
    LET ss1 == Put(ss, "db", init_database(DefaultUser, DefaultPassword, host, DefaultPort, DefaultDatabase)) IN
    IF ~llmOk
    THEN [ss |-> ss1, calls |-> <<"SQLDatabase.from_uri", llm_provider>>,
          ui |-> <<"success: Connected to database!", "error: Failed to connect">>]
    ELSE [ss |-> Put(ss1, "llm", make_llm(llm_provider, api_key)),
          calls |-> <<"SQLDatabase.from_uri", llm_provider>>,
          ui |-> <<"success: Connected to database!", "success: Connected to model!">>]

\* Variant of connect_handler that starts a fresh conversation on a
\* successful connection.
connect_handler_clear(ss, host, api_key, llm_provider, dbOk, llmOk) ==
    IF ~dbOk
    THEN [ss |-> ss, calls |-> <<"SQLDatabase.from_uri">>,
          ui |-> <<"error: Failed to connect">>]
    ELSE
    LET ss1 == Put(ss, "db", init_database(DefaultUser, DefaultPassword, host, DefaultPort, DefaultDatabase)) IN
    IF ~llmOk
    THEN [ss |-> ss1, calls |-> <<"SQLDatabase.from_uri", llm_provider>>,
          ui |-> <<"success: Connected to database!", "error: Failed to connect">>]
    ELSE [ss |-> Put(Put(ss1, "llm", make_llm(llm_provider, api_key)),
                     "chat_history", <<AIMessage(Greeting)>>),
          calls |-> <<"SQLDatabase.from_uri", llm_provider>>,
          ui |-> <<"success: Connected to database!", "success: Connected to model!">>]

\* Lines 108-129: the Connect handler.
connect_handler(ss, host, api_key, llm_provider, dbOk, llmOk) ==
    IF ~dbOk
    THEN [ss |-> ss, calls |-> <<"SQLDatabase.from_uri">>,
          ui |-> <<"error: Failed to connect">>]
    ELSE
    LET ss1 == Put(ss, "db", init_database(DefaultUser, DefaultPassword, host, DefaultPort, DefaultDatabase)) IN
    IF ~llmOk
    THEN [ss |-> ss1, calls |-> <<"SQLDatabase.from_uri", llm_provider>>,
          ui |-> <<"success: Connected to database!", "error: Failed to connect">>]
    ELSE [ss |-> Put(ss1, "llm", make_llm(llm_provider, api_key)),
          calls |-> <<"SQLDatabase.from_uri", llm_provider>>,
          ui |-> <<"success: Connected to database!", "success: Connected to model!">>]

\* Variant of append_ai with line 147 inside `if response:`.
append_ai_if_response(h, resp) ==
    IF Truthy(resp) THEN Append(h, AIMessage(resp.val)) ELSE h

\* Line 147: the AI message, or the placeholder when there is no response.
append_ai(h, resp) ==
    Append(h, AIMessage(IF Truthy(resp) THEN resp.val ELSE NoResponse))

\* Lines 131-147: the gate and the submit handler.
submit_handler(ss, uq, schemaOut, llmOut, runOut) ==
    IF gate_closed(ss)
    THEN [ss |-> ss, completed |-> TRUE, user_query |-> None, calls |-> <<>>,
          ui |-> <<"warning: Please connect">>,
          query |-> None, rows |-> <<>>, result |-> None, response |-> None]
    ELSE IF ~has_input(uq)
    THEN [ss |-> ss, completed |-> TRUE, user_query |-> uq, calls |-> <<>>, ui |-> <<>>,
          query |-> None, rows |-> <<>>, result |-> None, response |-> None]
    ELSE
    LET h1 == Append(ss["chat_history"], HumanMessage(uq.val))
        ss1 == Put(ss, "chat_history", h1)
        r == get_response(uq, ss["db"], h1, ss["llm"], schemaOut, llmOut, runOut)
        ui1 == <<"markdown: user_query">> \o r.ui
    IN
    IF r.raised
    THEN [ss |-> ss1, completed |-> FALSE, user_query |-> uq, calls |-> r.calls,
          ui |-> ui1 \o <<"exception">>,
          query |-> r.query, rows |-> r.rows, result |-> r.result, response |-> None]
    ELSE
    LET ui2 == IF Truthy(r.response) THEN ui1 \o <<"markdown: response">> ELSE ui1
    IN  [ss |-> Put(ss1, "chat_history", append_ai(h1, r.response)),
         completed |-> TRUE, user_query |-> uq, calls |-> r.calls, ui |-> ui2,
         query |-> r.query, rows |-> r.rows, result |-> r.result, response |-> r.response]

\* State after the first script run of a session: the greeting is stored and
\* the gate shows its warning.
Init ==
    /\ session_state = init_chat_history(EmptySession)
    /\ widgets = [Host |-> DefaultHost, APIKey |-> "", llm_provider |-> "Groq"]
    /\ event = "Start"
    /\ user_query = None
    /\ ui = <<"warning: Please connect">>
    /\ calls = <<>>
    /\ query = None
    /\ rows = <<>>
    /\ result = None
    /\ response = None
    /\ completed = TRUE

\* A script run started by the Connect button: lines 83-86, the handler, then
\* the gate with no chat input.
Connect ==
    \E dbOk \in BOOLEAN, llmOk \in BOOLEAN :
        \E c \in {connect_handler(init_chat_history(session_state), widgets.Host,
                                   widgets.APIKey, widgets.llm_provider, dbOk, llmOk)} :
        \E s \in {submit_handler(c.ss, None, NoOutcome.schema, NoOutcome.llm, NoOutcome.run)} :
            /\ session_state' = s.ss
            /\ event' = "Connect"
            /\ user_query' = s.user_query
            /\ ui' = c.ui \o s.ui
            /\ calls' = c.calls \o s.calls
            /\ query' = s.query
            /\ rows' = s.rows
            /\ result' = s.result
            /\ response' = s.response
            /\ completed' = s.completed
            /\ UNCHANGED widgets

\* A script run started by the chat input: lines 83-86, then the gate and the
\* submit handler.
Submit ==
    /\ Len(chat_history) + 2 <= MaxHistory
    /\ \E uq \in UserQueries :
       \E env \in (IF gate_closed(session_state) \/ ~has_input(uq) THEN {NoOutcome} ELSE Outcomes) :
       \E s \in {submit_handler(init_chat_history(session_state), uq, env.schema, env.llm, env.run)} :
            /\ session_state' = s.ss
            /\ event' = "Submit"
            /\ user_query' = s.user_query
            /\ ui' = s.ui
            /\ calls' = s.calls
            /\ query' = s.query
            /\ rows' = s.rows
            /\ result' = s.result
            /\ response' = s.response
            /\ completed' = s.completed
            /\ UNCHANGED widgets

\* A script run started by editing a sidebar widget (lines 98-105): the button
\* is not pressed and there is no chat input.
Edit ==
    \E host \in Hosts, api_key \in APIKeys, llm_provider \in Providers :
        \E w \in {[Host |-> host, APIKey |-> api_key, llm_provider |-> llm_provider]} :
        \E s \in {submit_handler(init_chat_history(session_state), None, NoOutcome.schema, NoOutcome.llm, NoOutcome.run)} :
            /\ w # widgets
            /\ widgets' = w
            /\ session_state' = s.ss
            /\ event' = "Edit"
            /\ user_query' = s.user_query
            /\ ui' = s.ui
            /\ calls' = s.calls
            /\ query' = s.query
            /\ rows' = s.rows
            /\ result' = s.result
            /\ response' = s.response
            /\ completed' = s.completed

Next == Connect \/ Submit \/ Edit

Spec == Init /\ [][Next]_vars

\* ------------------------------------------------------- properties
\* Both keys are in st.session_state.
GateOpen == {"db", "llm"} \subseteq DOMAIN session_state

\* v is an object of one of the given classes.
IsObject(v, classes) == "class" \in DOMAIN v /\ v.class \in classes

\* db and llm are stored and are the objects a successful construction yields.
Ready ==
    /\ GateOpen
    /\ IsObject(session_state["db"], {"SQLDatabase"})
    /\ IsObject(session_state["llm"], {"ChatGroq", "ChatOpenAI"})

\* The last run made a call of the query pipeline.
PipelineInvoked ==
    \E i \in 1..Len(calls) : calls[i] \in {"db.get_table_info", "llm", "db.run"}

\* The chat input is absent, empty or all whitespace.
Blank(uq) == uq = None \/ \A i \in 1..Len(uq.val) : uq.val[i] \in Whitespace

\* The last run was a Submit that passed the gate with non-empty input.
Handled == event = "Submit" /\ GateOpen /\ ~Blank(user_query)

\* A step that is a Submit passing the gate with non-empty input.
SubmitStep == event' = "Submit" /\ GateOpen /\ ~Blank(user_query')

\* The last run reported a failed connection.
ConnectFailed == \E i \in 1..Len(ui) : ui[i] = "error: Failed to connect"

IsPrefix(a, b) == Len(a) <= Len(b) /\ SubSeq(b, 1, Len(a)) = a

CountOf(c) == Cardinality({i \in 1..Len(calls) : calls[i] = c})

\* v is a text of the form "There were ... decisions."
IsCountSentence(v) ==
    /\ v.type = "str"
    /\ Len(v.val) >= Len(CountPrefix) + Len(CountSuffix)
    /\ SubSeq(v.val, 1, Len(CountPrefix)) = CountPrefix
    /\ SubSeq(v.val, Len(v.val) - Len(CountSuffix) + 1, Len(v.val)) = CountSuffix

\* C1: a run invokes the query pipeline (schema fetch, completion, SQL
\* execution) only from a state in which db and llm are both stored in the
\* session as successfully constructed objects.
C1_GateBeforePipeline == [][PipelineInvoked' => Ready]_vars

C1_Witness == event = "Submit" /\ PipelineInvoked /\ Len(calls) = 3 /\ Ready

\* C2 as stated: a handled Submit whose SQL execution returns lengthens the
\* history by 2 (Human, AI); one whose SQL execution raises lengthens it by 1
\* (Human only).
C2_Original ==
    [][SubmitStep =>
        LET n == Len(chat_history) IN
        /\ result'.type = "str" =>
              /\ Len(chat_history') = n + 2
              /\ chat_history'[n + 1].role = "Human"
              /\ chat_history'[n + 2].role = "AI"
        /\ result' = Raised =>
              /\ Len(chat_history') = n + 1
              /\ chat_history'[n + 1].role = "Human"]_vars

\* C2 amended: a handled Submit whose SQL execution returns or raises
\* lengthens the history by exactly 2, the Human message followed by an AI
\* message; when the execution raised, that AI message is the placeholder
\* "No response".
C2_Amended ==
    [][SubmitStep /\ (result'.type = "str" \/ result' = Raised) =>
        LET n == Len(chat_history) IN
        /\ Len(chat_history') = n + 2
        /\ SubSeq(chat_history', 1, n) = chat_history
        /\ chat_history'[n + 1] = HumanMessage(user_query'.val)
        /\ chat_history'[n + 2].role = "AI"
        /\ result' = Raised => chat_history'[n + 2] = AIMessage(NoResponse)]_vars

C2_Witness ==
    /\ Handled /\ result = Raised
    /\ Len(chat_history) = 3
    /\ chat_history[2].role = "Human"
    /\ chat_history[3] = AIMessage(NoResponse)

\* C3: a Connect run that reports a failure leaves db, llm and the chat
\* history as they were.
C3_FailedConnectKeepsState ==
    [][(event' = "Connect" /\ ConnectFailed') => session_state' = session_state]_vars

\* C4: with the API Key field empty, a handled Submit answers with the
\* missing-key literal and makes no external call.
C4_MissingKeyLiteral ==
    (Handled /\ widgets.APIKey = "") =>
        (response = Str(MissingKeyMsg) /\ calls = <<>>)

C6_CountSentence ==
    /\ (Handled /\ result.type = "str" /\ Len(rows) > 0 /\ Contains(upper(query.val), COUNT)) =>
          response = Str(CountPrefix \o IntStr(rows[1][1]) \o CountSuffix)
    /\ (Handled /\ query.type = "str" /\ ~Contains(upper(query.val), COUNT)) =>
          ~IsCountSentence(response)

\* C7: the SQL text handed to execution contains no code fence.
C7_NoFence == query.type = "str" => ~Contains(query.val, Fence)

\* C8: a handled Submit that reaches the completion call always runs to the end of the script, where the AI
\* message or the placeholder is appended, and makes at most one completion
\* call and at most one SQL execution.
C8_SubmitCompletes ==
    (Handled /\ CountOf("llm") >= 1) =>
        /\ completed
        /\ chat_history[Len(chat_history)].role = "AI"
        /\ CountOf("llm") <= 1
        /\ CountOf("db.run") <= 1

\* C9: the chat history only grows at its end: across every run the old
\* history is a prefix of the new one, and the greeting stays first.
C9_AppendOnly ==
    [][/\ IsPrefix(chat_history, chat_history')
       /\ chat_history[1] = AIMessage(Greeting)
       /\ chat_history'[1] = AIMessage(Greeting)]_vars

C9_Witness == event = "Connect" /\ Len(chat_history) = 3 /\ chat_history[3].role = "AI"

\* C10: a Submit with absent, empty or whitespace-only input, with db and llm
\* present, changes nothing in the session and makes no external call.
C10_BlankSubmitNoOp ==
    [][(event' = "Submit" /\ GateOpen /\ Blank(user_query')) =>
          (session_state' = session_state /\ calls' = <<>>)]_vars

C10_Witness ==
    event = "Submit" /\ GateOpen /\ user_query = Str(<<" ", "\n">>) /\ calls = <<>>

==========================================================================
